---------------------------- MODULE Spec2Model ----------------------------
(***************************************************************************)
(* Model of the Pokedex state management: the global NgRx store            *)
(* (pokemon.reducer.ts, pokemon.state.ts), its effects (pokemon.effects.ts,*)
(* two switchMap pipelines over the remote service pokemon.service.ts) and *)
(* the list view's local signal store (pokemon-list.store.ts) with its     *)
(* derived projection filteredPokemons.                                    *)
(*                                                                         *)
(* JavaScript values are represented as follows:                           *)
(*   - a Pokemon is a record [id, name, height, weight];                   *)
(*   - a string that is searched in (name, searchTerm) is a sequence of    *)
(*     one-character strings, so that toLowerCase and includes are         *)
(*     computed character by character;                                    *)
(*   - a nullable value (selectedPokemonId, error) is the empty set for    *)
(*     null and the singleton {v} for the value v;                         *)
(*   - an array is a sequence.                                             *)
(***************************************************************************)
EXTENDS Integers, Sequences, FiniteSets, TLC

(***************************************************************************)
(* Bounds of the model.                                                    *)
(***************************************************************************)
\* Record ids range over 1..MaxId.
MaxId == 2

Ids == 1..MaxId

\* The remote source is a fixed catalogue: the record it holds for an id.
\* Names are of mixed case and of lengths 2 and 3; height and weight differ.
RemoteName(id) ==
    CASE id % 3 = 1 -> <<"a", "b">>
      [] id % 3 = 2 -> <<"B", "b", "a">>
      [] OTHER -> <<"b", "A">>

RemotePokemon(id) ==
    [id |-> id, name |-> RemoteName(id), height |-> id + 6, weight |-> 10 * id]

\* Search terms the user can type.
SearchTerms == { <<>>, <<"A">>, <<"a", "B">>, <<"b", "b">> }

ViewModes == { "all", "favorites" }

\* error.message of a failed HTTP call; "" stands for a missing message.
HttpErrorMessages == { "", "Http failure response" }

Null == {}

Some(v) == {v}

TheValue(opt) == CHOOSE v \in opt : TRUE

(***************************************************************************)
(* Array helpers (Array.prototype.includes / sort); Array.prototype.filter *)
(* is SelectSeq.                                                           *)
(***************************************************************************)
RECURSIVE includes(_, _)
includes(arr, v) ==
    IF arr = <<>> THEN FALSE
    ELSE IF Head(arr) = v THEN TRUE
    ELSE includes(Tail(arr), v)

\* x inserted into the sorted array arr before the first element e with
\* cmp[e, x] > 0, so after every element that compares equal (the sort of
\* Array.prototype.sort is stable). cmp is the comparator, as a function
\* on pairs of elements.
insertSorted(arr, x, cmp) ==
    LET after == { i \in 1..Len(arr) : cmp[arr[i], x] > 0 }
        p == IF after = {} THEN Len(arr) + 1
             ELSE CHOOSE i \in after : \A j \in after : i <= j
    IN SubSeq(arr, 1, p - 1) \o <<x>> \o SubSeq(arr, p, Len(arr))

\* Array.prototype.sort with comparator cmp.
sort(arr, cmp) ==
    LET sorted[n \in 0..Len(arr)] ==
            IF n = 0 THEN <<>> ELSE insertSorted(sorted[n - 1], arr[n], cmp)
    IN sorted[Len(arr)]

Range(arr) == { arr[i] : i \in 1..Len(arr) }


(***************************************************************************)
(* String helpers (String.prototype.toLowerCase / includes).               *)
(***************************************************************************)
toLowerCaseChar(c) ==
    CASE c = "A" -> "a"
      [] c = "B" -> "b"
      [] OTHER -> c

toLowerCase(str) == [i \in 1..Len(str) |-> toLowerCaseChar(str[i])]

\* str.includes(search): search occurs in str as a contiguous substring.
strIncludes(str, search) ==
    \E i \in 0..(Len(str) - Len(search)) :
        SubSeq(str, i + 1, i + Len(search)) = search

\* Object.assign({}, original, changes)
assign(original, changes) ==
    [k \in (DOMAIN original) \cup (DOMAIN changes) |->
        IF k \in DOMAIN changes THEN changes[k] ELSE original[k]]

(***************************************************************************)
(* The remote source and PokemonService.                                   *)
(***************************************************************************)
\* One entry of the list endpoint's results; id is the number in the
\* trailing path segment of the entry's url.
ListEntries == { [name |-> RemoteName(id), id |-> id] : id \in Ids }

\* The list endpoint's results: each record of the remote source at most
\* once, in any order.
ListResults ==
    { r \in UNION { [1..n -> ListEntries] : n \in 0..MaxId } :
        \A i, j \in 1..Len(r) : i # j => r[i].id # r[j].id }

\* The detail endpoint's answer to GET pokemon/{id}.
DetailResponses(id) == { RemotePokemon(id) }

getAllPokemons(results) ==
    [i \in 1..Len(results) |->
        [id |-> results[i].id, name |-> results[i].name,
         height |-> 0, weight |-> 0]]

getPokemonById(pokemon) ==
    [id |-> pokemon.id, name |-> pokemon.name,
     height |-> pokemon.height, weight |-> pokemon.weight]

(***************************************************************************)
(* pokemon.state.ts: the entity adapter and the initial state.             *)
(***************************************************************************)
selectId(pokemon) == pokemon.id

sortComparer(a, b) == a.id - b.id

\* The function with empty domain: the entities dictionary {}.
EmptyDictionary == [k \in {} |-> k]

\* pokemonAdapter.addMany in the place of setAll: entities already held stay,
\* and only entities with a new id are added.
addMany(pokemons, s) ==
    LET held == DOMAIN s.entities
        isNew(p) == selectId(p) \notin held
        models == SelectSeq(pokemons, isNew)
        merged == [k \in held \cup { selectId(m) : m \in Range(models) } |->
                     IF k \in held THEN s.entities[k]
                     ELSE CHOOSE m \in Range(models) : selectId(m) = k]
        byEntity == [x \in DOMAIN merged, y \in DOMAIN merged |->
                        sortComparer(merged[x], merged[y])]
    IN [s EXCEPT
          !.ids = sort(@ \o [i \in 1..Len(models) |-> selectId(models[i])],
                       byEntity),
          !.entities = merged]

\* pokemonAdapter.setAll: the collection becomes the given entities, ids in
\* sortComparer order. (The entities given have pairwise different ids.)
setAll(pokemons, s) ==
    LET cmp == [a \in Range(pokemons), b \in Range(pokemons) |->
                   sortComparer(a, b)]
        models == sort(pokemons, cmp)
    IN [s EXCEPT
          !.ids = [i \in 1..Len(models) |-> selectId(models[i])],
          !.entities = [k \in { selectId(m) : m \in Range(models) } |->
                          CHOOSE m \in Range(models) : selectId(m) = k]]

\* pokemonAdapter.addOne in the place of upsertOne: an entity whose id is
\* present is left as it is.
addOne(pokemon, s) ==
    LET id == selectId(pokemon)
    IN IF id \in DOMAIN s.entities
       THEN s
       ELSE LET added == [k \in (DOMAIN s.entities) \cup {id} |->
                            IF k = id THEN pokemon ELSE s.entities[k]]
                byEntity == [x \in DOMAIN added, y \in DOMAIN added |->
                                sortComparer(added[x], added[y])]
            IN [s EXCEPT !.ids = insertSorted(@, id, byEntity),
                         !.entities = added]

\* pokemonAdapter.upsertOne: an entity whose id is present is updated with
\* the fields given, one whose id is absent is added at its sorted place.
upsertOne(pokemon, s) ==
    LET id == selectId(pokemon)
    IN IF id \in DOMAIN s.entities
       THEN [s EXCEPT !.entities[id] = assign(@, pokemon)]
       ELSE LET added == [k \in (DOMAIN s.entities) \cup {id} |->
                            IF k = id THEN pokemon ELSE s.entities[k]]
                byEntity == [x \in DOMAIN added, y \in DOMAIN added |->
                                sortComparer(added[x], added[y])]
            IN [s EXCEPT !.ids = insertSorted(@, id, byEntity),
                         !.entities = added]

\* pokemonAdapter.getSelectors().selectAll
selectAll(s) == [i \in 1..Len(s.ids) |-> s.entities[s.ids[i]]]

initialPokemonState ==
    [ids |-> <<>>, entities |-> EmptyDictionary,
     selectedPokemonId |-> Null, favoriteIds |-> <<>>,
     loading |-> FALSE, error |-> Null]

(***************************************************************************)
(* pokemon.reducer.ts                                                      *)
(***************************************************************************)
\* A loadPokemons case that also clears the selected id.
onLoadPokemonsDeselecting(s) ==
    [s EXCEPT !.loading = TRUE, !.error = Null, !.selectedPokemonId = Null]

\* on(PokemonActions.loadPokemons)
onLoadPokemons(s) == [s EXCEPT !.loading = TRUE, !.error = Null]

\* A success case that leaves the loading flag as it is.
onLoadPokemonsSuccessStillLoading(s, action) ==
    setAll(action.pokemons, [s EXCEPT !.error = Null])

onLoadPokemonsSuccess(s, action) ==
    setAll(action.pokemons, [s EXCEPT !.loading = FALSE, !.error = Null])

\* A failure case that also empties the collection.
onLoadPokemonsFailureEmptying(s, action) ==
    [s EXCEPT !.ids = <<>>, !.entities = [k \in {} |-> k],
              !.loading = FALSE, !.error = Some(action.error)]

onLoadPokemonsFailure(s, action) ==
    [s EXCEPT !.loading = FALSE, !.error = Some(action.error)]

\* A loadPokemonById case that leaves the error as it is.
onLoadPokemonByIdKeepingError(s) == [s EXCEPT !.loading = TRUE]

\* on(PokemonActions.loadPokemonById)
onLoadPokemonById(s) == [s EXCEPT !.loading = TRUE, !.error = Null]

\* A success case that leaves the loading flag as it is.
onLoadPokemonByIdSuccessStillLoading(s, action) ==
    upsertOne(action.pokemon,
              [s EXCEPT !.selectedPokemonId = Some(action.pokemon.id),
                        !.error = Null])

onLoadPokemonByIdSuccess(s, action) ==
    upsertOne(action.pokemon,
              [s EXCEPT !.selectedPokemonId = Some(action.pokemon.id),
                        !.loading = FALSE, !.error = Null])

\* A failure case that also clears the selection.
onLoadPokemonByIdFailureDeselecting(s, action) ==
    [s EXCEPT !.selectedPokemonId = Null,
              !.loading = FALSE, !.error = Some(action.error)]

onLoadPokemonByIdFailure(s, action) ==
    [s EXCEPT !.loading = FALSE, !.error = Some(action.error)]

\* A toggle that adds the id whether or not it is a favorite already.
onToggleFavoriteAdding(s, action) ==
    [s EXCEPT !.favoriteIds = @ \o <<action.id>>]

\* A toggle that also clears the error.
onToggleFavoriteClearing(s, action) ==
    LET isFavorite == includes(s.favoriteIds, action.id)
        other(favId) == favId # action.id
    IN [s EXCEPT !.error = Null,
                 !.favoriteIds =
                     IF isFavorite THEN SelectSeq(@, other) ELSE @ \o <<action.id>>]

onToggleFavorite(s, action) ==
    LET isFavorite == includes(s.favoriteIds, action.id)
        other(favId) == favId # action.id
    IN [s EXCEPT !.favoriteIds =
            IF isFavorite THEN SelectSeq(@, other) ELSE @ \o <<action.id>>]

\* A clear that also resets the loading flag.
onClearErrorResetting(s) == [s EXCEPT !.error = Null, !.loading = FALSE]

onClearError(s) == [s EXCEPT !.error = Null]

pokemonReducer(s, action) ==
    CASE action.type = "loadPokemons" -> onLoadPokemons(s)
      [] action.type = "loadPokemonsSuccess" -> onLoadPokemonsSuccess(s, action)
      [] action.type = "loadPokemonsFailure" -> onLoadPokemonsFailure(s, action)
      [] action.type = "loadPokemonById" -> onLoadPokemonById(s)
      [] action.type = "loadPokemonByIdSuccess" ->
             onLoadPokemonByIdSuccess(s, action)
      [] action.type = "loadPokemonByIdFailure" ->
             onLoadPokemonByIdFailure(s, action)
      [] action.type = "toggleFavorite" -> onToggleFavorite(s, action)
      [] action.type = "clearError" -> onClearError(s)
      [] OTHER -> s

(***************************************************************************)
(* pokemon.selectors.ts                                                    *)
(***************************************************************************)
selectAllPokemons(s) == selectAll(s)

selectFavoriteIds(s) == s.favoriteIds

(***************************************************************************)
(* pokemon.effects.ts                                                      *)
(***************************************************************************)
\* error.message without a fallback.
messageOnly(message, fallback) == message

\* error.message || fallback
messageOr(message, fallback) == IF message # "" THEN message ELSE fallback

\* The handle of a new inner subscription: the least one not in use.
newRequest(used) ==
    CHOOSE n \in 1..(Cardinality(used) + 1) :
        n \notin used /\ \A m \in 1..(n - 1) : m \in used

\* mergeMap in the place of switchMap: the earlier inner subscriptions stay.
mergeMap(live, request) == live \cup {request}

\* switchMap: subscribing to a new inner observable unsubscribes from the
\* previous one, which cancels its HTTP request.
switchMap(live, request) == {request}

(***************************************************************************)
(* pokemon-list.store.ts: the derived projection.                          *)
(***************************************************************************)
\* A comparator for descending ids.
byIdDescending(a, b) == b.id - a.id

byId(a, b) == a.id - b.id

\* A projection that compares the name with the term as typed.
filteredPokemonsAsTyped(s, term, mode) ==
    LET pokemons == selectAllPokemons(s)
        favorites == selectFavoriteIds(s)
        isFavorite(p) == includes(favorites, p.id)
        matches(p) == strIncludes(toLowerCase(p.name), term)
        byFavorites == IF mode = "favorites"
                       THEN SelectSeq(pokemons, isFavorite) ELSE pokemons
        bySearch == IF term # <<>>
                    THEN SelectSeq(byFavorites, matches) ELSE byFavorites
        cmp == [a \in Range(bySearch), b \in Range(bySearch) |-> byId(a, b)]
    IN sort(bySearch, cmp)

\* A projection that applies the search only when not showing favorites.
filteredPokemonsEitherFilter(s, term, mode) ==
    LET pokemons == selectAllPokemons(s)
        favorites == selectFavoriteIds(s)
        search == toLowerCase(term)
        isFavorite(p) == includes(favorites, p.id)
        matches(p) == strIncludes(toLowerCase(p.name), search)
        filtered == IF mode = "favorites" THEN SelectSeq(pokemons, isFavorite)
                    ELSE IF search # <<>> THEN SelectSeq(pokemons, matches)
                    ELSE pokemons
        cmp == [a \in Range(filtered), b \in Range(filtered) |-> byId(a, b)]
    IN sort(filtered, cmp)

filteredPokemons(s, term, mode) ==
    LET pokemons == selectAllPokemons(s)
        favorites == selectFavoriteIds(s)
        search == toLowerCase(term)
        isFavorite(p) == includes(favorites, p.id)
        matches(p) == strIncludes(toLowerCase(p.name), search)
        byFavorites == IF mode = "favorites"
                       THEN SelectSeq(pokemons, isFavorite) ELSE pokemons
        bySearch == IF search # <<>>
                    THEN SelectSeq(byFavorites, matches) ELSE byFavorites
        cmp == [a \in Range(bySearch), b \in Range(bySearch) |-> byId(a, b)]
    IN sort(bySearch, cmp)

(***************************************************************************)
(* The list view's template (pokemon-list.component.ts).                   *)
(***************************************************************************)
\* A nullable string in a condition: null and '' are falsy.
truthy(opt) == opt # Null /\ TheValue(opt) # ""

\* @if (!loading() && !error()): the grid of cards is rendered.
gridShown(s) == ~s.loading /\ ~truthy(s.error)

(***************************************************************************)
(* pokemon-list.store.ts: the local entity copy.                           *)
(***************************************************************************)
\* setEntities(pokemons): each entity replaces the local one of its id or is
\* appended.
setEntities(pokemons, local) ==
    LET given(id) == \E p \in Range(pokemons) : p.id = id
        held(p) == \E i \in 1..Len(local) : local[i].id = p.id
        isNew(p) == ~held(p)
    IN [i \in 1..Len(local) |->
           IF given(local[i].id)
           THEN CHOOSE p \in Range(pokemons) : p.id = local[i].id
           ELSE local[i]]
       \o SelectSeq(pokemons, isNew)

\* updateEntity({ id, changes }): the local entity of id, if any, takes the
\* changes.
updateEntity(id, changes, local) ==
    [i \in 1..Len(local) |->
        IF local[i].id = id THEN assign(local[i], changes) ELSE local[i]]

\* The changes optimisticallyUpdatePokemon is called with.
OptimisticChanges == { [name |-> <<"b">>] }

\* syncWithGlobalStore is an rxMethod<void> called without an argument: its
\* pipe runs once, at the call, on the collection as it is then.
syncWithGlobalStore(s, local) == setEntities(selectAllPokemons(s), local)

(***************************************************************************)
(* The detail view's template (pokemon-detail.component.ts).               *)
(***************************************************************************)
\* selectSelectedPokemon: selectedId ? entities[selectedId] : null
selectSelectedPokemon(s) ==
    IF s.selectedPokemonId # Null
          /\ TheValue(s.selectedPokemonId) # 0
          /\ TheValue(s.selectedPokemonId) \in DOMAIN s.entities
    THEN Some(s.entities[TheValue(s.selectedPokemonId)])
    ELSE Null

\* @if (!loading() && !error() && pokemon()): the info card with its
\* favorite button is rendered.
infoShown(s) ==
    ~s.loading /\ ~truthy(s.error) /\ selectSelectedPokemon(s) # Null

(***************************************************************************)
(* app.config.ts: the effects are provided at the root.                    *)
(***************************************************************************)
AllEffects == { "loadPokemons$", "loadPokemonById$" }

\* catchError on the outer pipe: the effect's stream ends with the failure
\* action.
catchErrorOuter(subscriptions, effect) == subscriptions \ {effect}

\* catchError sits in the inner pipe: the error becomes the failure action
\* there and the effect stays subscribed to the actions.
catchError(subscriptions, effect) == subscriptions

\* An effect that is subscribed maps the action to a request.
issue(subscriptions, effect, live, request) ==
    IF effect \in subscriptions THEN switchMap(live, request) ELSE live

\* Effects that are torn down with the view.
cancelledWithView(live) == {}

\* The requests of the effects when a view is destroyed: the effects belong
\* to the root, not to the view, and keep their inner subscriptions.
afterViewDestroyed(live) == live

(***************************************************************************)
(* State.                                                                  *)
(***************************************************************************)
VARIABLES
    state,          \* the 'pokemon' feature state of the global store
    liveAll,        \* live inner subscriptions (requests) of loadPokemons$
    liveById,       \* live inner subscriptions (requests) of loadPokemonById$
    subscribed,     \* the effects subscribed to the actions
    dispatched,     \* the action the store processed in the last step
    view,           \* the routed view: "none", "list" or "detail"
    routeId,        \* the detail view's pokemonId (0: not a usable id)
    searchTerm,     \* PokemonListLocalStore.searchTerm
    viewMode,       \* PokemonListLocalStore.viewMode
    isLoading,      \* PokemonListLocalStore.isLoading
    localEntities   \* PokemonListLocalStore.entities


viewVars == <<view, routeId, searchTerm, viewMode, isLoading, localEntities>>

vars == <<state, liveAll, liveById, subscribed, dispatched, view, routeId,
          searchTerm, viewMode, isLoading, localEntities>>

\* No action reached the global store in the step.
NoAction == [type |-> "none"]

\* Route ids: the ids and 0, which Number(params['id']) gives for '0' (as
\* NaN, which it gives for a text, 0 is falsy).
RouteIds == Ids \cup {0}

Init ==
    /\ state = initialPokemonState
    /\ liveAll = {}
    /\ liveById = {}
    /\ subscribed = AllEffects
    /\ dispatched = NoAction
    /\ view = "none"
    /\ routeId = Null
    /\ searchTerm = <<>>
    /\ viewMode = "all"
    /\ isLoading = FALSE
    /\ localEntities = <<>>

\* Store.dispatch: the reducer runs on the action.
Dispatch(action) ==
    /\ state' = pokemonReducer(state, action)
    /\ dispatched' = action

\* loadPokemons$ on a loadPokemons action.
IssueLoadPokemons ==
    liveAll' = issue(subscribed, "loadPokemons$", liveAll, newRequest(liveAll))

\* loadPokemonById$ on a loadPokemonById action.
IssueLoadPokemonById(id) ==
    liveById' =
        issue(subscribed, "loadPokemonById$", liveById,
              [req |-> newRequest({ r.req : r \in liveById }), id |-> id])

(***************************************************************************)
(* Operations of the store and of its effects.                             *)
(***************************************************************************)
\* loadPokemons() of the list store: the reducer, then loadPokemons$ issues
\* the request.
LoadPokemons ==
    /\ Dispatch([type |-> "loadPokemons"])
    /\ IssueLoadPokemons
    /\ UNCHANGED <<liveById, subscribed, viewVars>>

\* The list request answers: loadPokemons$ maps it to the success action.
LoadPokemonsSuccess ==
    \E req \in liveAll, results \in ListResults :
        /\ liveAll' = liveAll \ {req}
        /\ Dispatch([type |-> "loadPokemonsSuccess",
                     pokemons |-> getAllPokemons(results)])
        /\ UNCHANGED <<liveById, subscribed, viewVars>>

\* The list request fails: catchError maps the error to the failure action.
LoadPokemonsFailure ==
    \E req \in liveAll, message \in HttpErrorMessages :
        /\ liveAll' = liveAll \ {req}
        /\ subscribed' = catchError(subscribed, "loadPokemons$")
        /\ Dispatch([type |-> "loadPokemonsFailure",
                     error |-> messageOr(message, "Failed to load pokemons")])
        /\ UNCHANGED <<liveById, viewVars>>

\* ngOnInit of the detail view for route id: the reducer, then
\* loadPokemonById$ issues the request.
LoadPokemonById ==
    \E id \in Ids :
        /\ Dispatch([type |-> "loadPokemonById", id |-> id])
        /\ IssueLoadPokemonById(id)
        /\ UNCHANGED <<liveAll, subscribed, viewVars>>

LoadPokemonByIdSuccess ==
    \E r \in liveById :
        \E pokemon \in DetailResponses(r.id) :
            /\ liveById' = liveById \ {r}
            /\ Dispatch([type |-> "loadPokemonByIdSuccess",
                         pokemon |-> getPokemonById(pokemon)])
            /\ UNCHANGED <<liveAll, subscribed, viewVars>>

LoadPokemonByIdFailure ==
    \E r \in liveById, message \in HttpErrorMessages :
        /\ liveById' = liveById \ {r}
        /\ subscribed' = catchError(subscribed, "loadPokemonById$")
        /\ Dispatch([type |-> "loadPokemonByIdFailure",
                     error |-> messageOr(message, "Failed to load pokemon")])
        /\ UNCHANGED <<liveAll, viewVars>>

\* toggleFavorite(id) of the list store or of the detail view.
ToggleFavorite ==
    \E id \in Ids :
        /\ Dispatch([type |-> "toggleFavorite", id |-> id])
        /\ UNCHANGED <<liveAll, liveById, subscribed, viewVars>>

ClearError ==
    /\ Dispatch([type |-> "clearError"])
    /\ UNCHANGED <<liveAll, liveById, subscribed, viewVars>>

(***************************************************************************)
(* Operations of the views.                                                *)
(***************************************************************************)
\* The router creates the list view and with it a PokemonListLocalStore,
\* whose onInit calls loadPokemons() and then syncWithGlobalStore(). A
\* detail view that was shown is destroyed.
OpenList ==
    /\ view # "list"
    /\ view' = "list"
    /\ routeId' = Null
    /\ Dispatch([type |-> "loadPokemons"])
    /\ IssueLoadPokemons
    /\ liveById' = afterViewDestroyed(liveById)
    /\ searchTerm' = <<>>
    /\ viewMode' = "all"
    /\ isLoading' = FALSE
    /\ localEntities' = syncWithGlobalStore(state', <<>>)
    /\ UNCHANGED subscribed

\* The router creates the detail view for a route id (a card's details
\* button, or a url): ngOnInit dispatches loadPokemonById for an id that is
\* truthy. A list view that was shown is destroyed with its local store.
OpenDetail ==
    \E id \in RouteIds :
        /\ view # "detail"
        /\ view' = "detail"
        /\ routeId' = Some(id)
        /\ IF id # 0
           THEN /\ Dispatch([type |-> "loadPokemonById", id |-> id])
                /\ IssueLoadPokemonById(id)
           ELSE /\ dispatched' = NoAction
                /\ UNCHANGED <<state, liveById>>
        /\ liveAll' = afterViewDestroyed(liveAll)
        /\ searchTerm' = <<>>
        /\ viewMode' = "all"
        /\ isLoading' = FALSE
        /\ localEntities' = <<>>
        /\ UNCHANGED subscribed

\* The route's id parameter changes while the detail view is shown (a
\* history entry of another detail url): the router keeps the component,
\* pokemonId follows route.params, and ngOnInit does not run again.
ChangeRouteId ==
    \E id \in RouteIds :
        /\ view = "detail"
        /\ routeId # Some(id)
        /\ routeId' = Some(id)
        /\ dispatched' = NoAction
        /\ UNCHANGED <<state, liveAll, liveById, subscribed, view,
                       searchTerm, viewMode, isLoading, localEntities>>

\* The favorite button of a card of the grid, or of the detail view's info
\* card.
ClickFavorite ==
    \E id \in Ids :
        /\ \/ /\ view = "list"
              /\ gridShown(state)
              /\ \E p \in Range(filteredPokemons(state, searchTerm, viewMode)) :
                    p.id = id
           \/ /\ view = "detail"
              /\ infoShown(state)
              /\ routeId = Some(id)
        /\ Dispatch([type |-> "toggleFavorite", id |-> id])
        /\ UNCHANGED <<liveAll, liveById, subscribed, viewVars>>

\* The terms typed into the search field.
TypedTerms == { <<>>, <<"a", "B">> }

\* setSearchTerm that also reloads the list.
SetSearchTermReloading ==
    \E term \in TypedTerms :
        /\ view = "list"
        /\ searchTerm' = term
        /\ Dispatch([type |-> "loadPokemons"])
        /\ IssueLoadPokemons
        /\ UNCHANGED <<liveById, subscribed, view, routeId,
                       viewMode, isLoading, localEntities>>

SetSearchTerm ==
    \E term \in TypedTerms :
        /\ view = "list"
        /\ searchTerm' = term
        /\ dispatched' = NoAction
        /\ UNCHANGED <<state, liveAll, liveById, subscribed, view, routeId,
                       viewMode, isLoading, localEntities>>

SetViewMode ==
    \E mode \in ViewModes :
        /\ view = "list"
        /\ viewMode' = mode
        /\ dispatched' = NoAction
        /\ UNCHANGED <<state, liveAll, liveById, subscribed, view, routeId,
                       searchTerm, isLoading, localEntities>>

\* The Clear Search button, rendered while hasSearchTerm().
ClearSearch ==
    /\ view = "list"
    /\ Len(searchTerm) > 0
    /\ searchTerm' = <<>>
    /\ dispatched' = NoAction
    /\ UNCHANGED <<state, liveAll, liveById, subscribed, view, routeId,
                   viewMode, isLoading, localEntities>>

\* An optimistic update that is written back to the global collection.
OptimisticallyUpdatePokemonWritingBack ==
    \E id \in Ids, changes \in OptimisticChanges :
        /\ view = "list"
        /\ localEntities' = updateEntity(id, changes, localEntities)
        /\ state' = [state EXCEPT !.entities =
                        [k \in DOMAIN @ |->
                            IF k = id THEN assign(@[k], changes) ELSE @[k]]]
        /\ dispatched' = NoAction
        /\ UNCHANGED <<liveAll, liveById, subscribed, view, routeId,
                       searchTerm, viewMode, isLoading>>

\* optimisticallyUpdatePokemon(id, changes): patchState on the local store.
OptimisticallyUpdatePokemon ==
    \E id \in Ids, changes \in OptimisticChanges :
        /\ view = "list"
        /\ localEntities' = updateEntity(id, changes, localEntities)
        /\ dispatched' = NoAction
        /\ UNCHANGED <<state, liveAll, liveById, subscribed, view, routeId,
                       searchTerm, viewMode, isLoading>>

\* The application: the views dispatch, the effects settle.
Next ==
    \/ OpenList
    \/ OpenDetail
    \/ ChangeRouteId
    \/ LoadPokemonsSuccess
    \/ LoadPokemonsFailure
    \/ LoadPokemonByIdSuccess
    \/ LoadPokemonByIdFailure
    \/ ClickFavorite
    \/ SetSearchTerm
    \/ SetViewMode
    \/ ClearSearch
    \/ OptimisticallyUpdatePokemon

Spec == Init /\ [][Next]_vars

\* The global store with its effects alone, under any order of dispatches;
\* no view is created.
NextStore ==
    \/ LoadPokemons
    \/ LoadPokemonsSuccess
    \/ LoadPokemonsFailure
    \/ LoadPokemonById
    \/ LoadPokemonByIdSuccess
    \/ LoadPokemonByIdFailure
    \/ ToggleFavorite
    \/ ClearError

SpecStore == Init /\ [][NextStore]_vars

\* The settlement of the list request, and of the detail request.
SettleLoadPokemons == LoadPokemonsSuccess \/ LoadPokemonsFailure

SettleLoadPokemonById == LoadPokemonByIdSuccess \/ LoadPokemonByIdFailure

\* The global store with a remote source that answers: a request that
\* stays in flight is settled at some time, with a response or an error.
SpecStoreFair ==
    /\ SpecStore
    /\ WF_vars(SettleLoadPokemons)
    /\ WF_vars(SettleLoadPokemonById)


(***************************************************************************)
(* Properties.                                                             *)
(***************************************************************************)
\* The records of the collection, as a set.
Collection(s) == { s.entities[k] : k \in DOMAIN s.entities }

\* The ids list names each key of the entities dictionary exactly once.
IdsListKeys(s) ==
    /\ Range(s.ids) = DOMAIN s.entities
    /\ Len(s.ids) = Cardinality(DOMAIN s.entities)

\* C1: when a loadPokemons request succeeds, the collection afterwards is
\* exactly the records of the response, keyed by id (records held before
\* and missing from the response are gone, records of the response replace
\* earlier records of their id), loading is false and error is null.
C1_LoadAllSuccessReplaces ==
    [][dispatched'.type = "loadPokemonsSuccess" =>
          LET response == dispatched'.pokemons
          IN /\ Collection(state') = Range(response)
             /\ \A p \in Range(response) :
                   /\ p.id \in DOMAIN state'.entities
                   /\ state'.entities[p.id] = p
             /\ DOMAIN state'.entities = { p.id : p \in Range(response) }
             /\ IdsListKeys(state')
             /\ state'.loading = FALSE
             /\ state'.error = Null]_vars

\* A one-record list response has replaced a collection that held the
\* selected record of an earlier detail fetch: that record is gone.
C1_Witness ==
    /\ dispatched.type = "loadPokemonsSuccess"
    /\ Len(dispatched.pokemons) = 1
    /\ state.selectedPokemonId # Null
    /\ TheValue(state.selectedPokemonId) \notin DOMAIN state.entities
    /\ DOMAIN state.entities = { dispatched.pokemons[1].id }

\* C2: when a loadPokemons request fails, the collection, the favorites and
\* the selection are unchanged, the error is a non-empty message and loading
\* is false.
C2_LoadAllFailureKeeps ==
    [][dispatched'.type = "loadPokemonsFailure" =>
          /\ state'.ids = state.ids
          /\ state'.entities = state.entities
          /\ state'.favoriteIds = state.favoriteIds
          /\ state'.selectedPokemonId = state.selectedPokemonId
          /\ state'.error # Null
          /\ TheValue(state'.error) # ""
          /\ state'.error = Some(dispatched'.error)
          /\ state'.loading = FALSE]_vars

\* A list fetch has failed without a message while the collection, the
\* favorites and the selection were populated.
C2_Witness ==
    /\ dispatched.type = "loadPokemonsFailure"
    /\ state.error = Some("Failed to load pokemons")
    /\ Len(state.ids) = 2
    /\ state.favoriteIds # <<>>
    /\ state.selectedPokemonId # Null

\* C3: when loadPokemonById(id) succeeds, the selection is id, the record of
\* id is the response payload (added or overwritten), every other record is
\* unchanged, loading is false and error is null.
C3_LoadOneSuccessUpserts ==
    [][dispatched'.type = "loadPokemonByIdSuccess" =>
          LET pokemon == dispatched'.pokemon
              answered == liveById \ liveById'
          IN /\ answered # {}
             /\ \A r \in answered :
                   /\ state'.selectedPokemonId = Some(r.id)
                   /\ pokemon = RemotePokemon(r.id)
             /\ DOMAIN state'.entities = (DOMAIN state.entities) \cup {pokemon.id}
             /\ state'.entities[pokemon.id] = pokemon
             /\ \A k \in (DOMAIN state.entities) \ {pokemon.id} :
                   state'.entities[k] = state.entities[k]
             /\ IdsListKeys(state')
             /\ state'.loading = FALSE
             /\ state'.error = Null]_vars

\* A detail response for id 2 has overwritten or added the record of id 2
\* beside the record of id 1, which is as the list fetch left it.
C3_Witness ==
    /\ dispatched.type = "loadPokemonByIdSuccess"
    /\ dispatched.pokemon.id = 2
    /\ state.selectedPokemonId = Some(2)
    /\ DOMAIN state.entities = {1, 2}
    /\ state.entities[1].height = 0
    /\ state.entities[2].height # 0

\* C4: when loadPokemonById(id) fails, an error message is recorded, loading
\* is false, and the selection, the collection and the favorites are
\* unchanged.
C4_LoadOneFailureKeeps ==
    [][dispatched'.type = "loadPokemonByIdFailure" =>
          /\ state'.error = Some(dispatched'.error)
          /\ TheValue(state'.error) # ""
          /\ state'.loading = FALSE
          /\ state'.selectedPokemonId = state.selectedPokemonId
          /\ state'.ids = state.ids
          /\ state'.entities = state.entities
          /\ state'.favoriteIds = state.favoriteIds]_vars

\* A detail fetch has failed while another record was selected.
C4_Witness ==
    /\ dispatched.type = "loadPokemonByIdFailure"
    /\ state.selectedPokemonId = Some(1)
    /\ state.error = Some("Http failure response")
    /\ state.ids # <<>>
    /\ state.favoriteIds # <<>>


\* The state after toggleFavorite({id}).
Toggled(s, id) == pokemonReducer(s, [type |-> "toggleFavorite", id |-> id])

\* C5: in every state and for every id, toggleFavorite(id) applied twice in
\* a row gives back the original membership of the favorites: the first
\* toggle adds an absent id and removes a present one, the second undoes it.
C5_ToggleTwiceRestores ==
    \A id \in Ids :
        LET before == Range(state.favoriteIds)
            once == Range(Toggled(state, id).favoriteIds)
            twice == Range(Toggled(Toggled(state, id), id).favoriteIds)
        IN /\ id \notin before => once = before \cup {id}
           /\ id \in before => once = before \ {id}
           /\ twice = before

\* A toggle has removed an id from a favorites list that still holds
\* another id: the removed id had been toggled in before.
C5_Witness ==
    /\ dispatched.type = "toggleFavorite"
    /\ ~includes(state.favoriteIds, dispatched.id)
    /\ state.favoriteIds # <<>>

SameLetter(c, d) ==
    \/ c = d
    \/ {c, d} = {"a", "A"}
    \/ {c, d} = {"b", "B"}

\* term occurs in name as a contiguous substring, ignoring case.
ContainsIgnoringCase(name, term) ==
    \E start \in 0..(Len(name) - Len(term)) :
        \A k \in 1..Len(term) : SameLetter(name[start + k], term[k])

\* The records the projection is to hold for term and mode.
Qualifying(s, term, mode) ==
    { p \in Collection(s) :
        /\ mode = "favorites" => \E i \in 1..Len(s.favoriteIds) :
                                     s.favoriteIds[i] = p.id
        /\ term # <<>> => ContainsIgnoringCase(p.name, term) }

C8_ProjectionSorted ==
    \A term \in SearchTerms, mode \in ViewModes :
        LET projection == filteredPokemons(state, term, mode)
        IN \A i, j \in 1..Len(projection) :
              i < j => projection[i].id < projection[j].id

\* A list response that named the higher id first has been stored and both
\* of its records are projected.
C8_Witness ==
    /\ dispatched.type = "loadPokemonsSuccess"
    /\ Len(dispatched.pokemons) = 2
    /\ dispatched.pokemons[1].id > dispatched.pokemons[2].id
    /\ Len(filteredPokemons(state, <<>>, "all")) = 2

\* C9: for the same collection, favorites and search term, every record of
\* the projection under the mode favorites is in the projection under the
\* mode all.
C9_FavoritesSubsetOfAll ==
    \A term \in SearchTerms :
        Range(filteredPokemons(state, term, "favorites"))
            \subseteq Range(filteredPokemons(state, term, "all"))

\* With a term that one name only contains, the favorites hold a record the
\* term excludes: the projection under all has one record and the one under
\* favorites none, while without a term the favorite is projected.
C9_Witness ==
    /\ Len(state.ids) = 2
    /\ state.favoriteIds = <<1>>
    /\ Len(filteredPokemons(state, <<"b", "b">>, "all")) = 1
    /\ Len(filteredPokemons(state, <<"b", "b">>, "favorites")) = 0
    /\ Len(filteredPokemons(state, <<>>, "favorites")) = 1

FetchDispatches == { "loadPokemons", "loadPokemonById" }

ListSettlements == { "loadPokemonsSuccess", "loadPokemonsFailure" }

DetailSettlements == { "loadPokemonByIdSuccess", "loadPokemonByIdFailure" }

Settlements == ListSettlements \cup DetailSettlements

C12_LoadingIsLastWrite ==
    [][/\ dispatched'.type \in FetchDispatches => state'.loading
       /\ dispatched'.type \in Settlements => ~state'.loading
       /\ dispatched'.type \notin (FetchDispatches \cup Settlements) =>
             state'.loading = state.loading]_vars

\* The list request has settled and the flag is false while the detail
\* request is still in flight.
C12_Witness ==
    /\ dispatched.type \in ListSettlements
    /\ ~state.loading
    /\ liveById # {}

\* C13 as stated: an error that is set is cleared by clearError and by the
\* dispatch of a fetch only.
C13_ErrorClearedOnlyByClearOrDispatch ==
    [][(state.error # Null /\ state'.error = Null) =>
          dispatched'.type \in FetchDispatches \cup {"clearError"}]_vars

\* C13 as amended: an error that is set is cleared by clearError, by the
\* dispatch of a fetch and by the success of a fetch that was in flight; a
\* failure replaces it by its own message, and no other step changes it.
C13_ErrorClearedAlsoBySuccess ==
    [][/\ (state.error # Null /\ state'.error = Null) =>
             dispatched'.type \in
                 FetchDispatches
                     \cup {"clearError", "loadPokemonsSuccess",
                           "loadPokemonByIdSuccess"}
       /\ (state.error # Null /\ state'.error # state.error
             /\ state'.error # Null) =>
             dispatched'.type \in {"loadPokemonsFailure",
                                   "loadPokemonByIdFailure"}]_vars

\* The error of a failed fetch is still set after a toggleFavorite made
\* while the other fetch is in flight.
C13_Witness ==
    /\ dispatched.type = "toggleFavorite"
    /\ state.error # Null
    /\ liveAll \cup liveById # {}

\* C14 as stated: after a list-fetch failure the list of records held is
\* empty.
C14_FailureLeavesEmptyList ==
    [][dispatched'.type = "loadPokemonsFailure" => state'.ids = <<>>]_vars

\* C14 as amended: a list-fetch failure leaves the records held as they
\* were, so they are empty only when they were empty before; the list view
\* renders no grid while the error is set.
C14_FailureLeavesListAsItWas ==
    [][dispatched'.type = "loadPokemonsFailure" =>
          /\ selectAll(state') = selectAll(state)
          /\ (state'.ids = <<>>) <=> (state.ids = <<>>)
          /\ ~gridShown(state')]_vars

\* A list fetch has failed while the collection held the record of an
\* earlier detail fetch.
C14_Witness ==
    /\ dispatched.type = "loadPokemonsFailure"
    /\ Len(state.ids) = 1
    /\ state.entities[state.ids[1]].height # 0
    /\ ~gridShown(state)

C18_HungRequestKeepsLoading ==
    [][(/\ state.loading
        /\ \/ liveAll # {} /\ liveAll' = liveAll
           \/ liveById # {} /\ liveById' = liveById) =>
          state'.loading]_vars

\* C18 as amended: the loading flag goes from true to false only in the
\* settlement of a request; so with one request in flight that never
\* settles it stays true, and with two it falls when the other settles.
C18_LoadingFallsOnlyBySettlement ==
    [][/\ (state.loading /\ ~state'.loading) =>
             /\ dispatched'.type \in Settlements
             /\ (liveAll \ liveAll') \cup (liveById \ liveById') # {}
       /\ (state.loading /\ Cardinality(liveAll) + Cardinality(liveById) = 1
             /\ liveAll' = liveAll /\ liveById' = liveById) =>
             state'.loading]_vars

\* The error has been cleared while the list request hangs: loading is
\* still true.
C18_Witness ==
    /\ dispatched.type = "clearError"
    /\ state.loading
    /\ liveAll # {}
    /\ liveById = {}

\* C15: a fetch failure is never fatal. In every state, so after any number
\* of failed requests of either kind, a dispatch of loadPokemons and a
\* dispatch of loadPokemonById for any id each issue a new request, and the
\* response of a request in flight is applied when it arrives.
C15_FetchFailureNotFatal ==
    /\ [](/\ ENABLED (LoadPokemons /\ liveAll' \ liveAll # {})
          /\ \A id \in Ids :
                ENABLED (/\ LoadPokemonById
                         /\ dispatched'.id = id
                         /\ \E r \in liveById' \ liveById : r.id = id)
          /\ liveAll # {} =>
                ENABLED LoadPokemonsSuccess /\ ENABLED LoadPokemonsFailure
          /\ liveById # {} =>
                ENABLED LoadPokemonByIdSuccess
                   /\ ENABLED LoadPokemonByIdFailure)
    /\ [][/\ dispatched'.type = "loadPokemons" => liveAll' \ liveAll # {}
          /\ dispatched'.type = "loadPokemonById" =>
                \E r \in liveById' \ liveById : r.id = dispatched'.id
          /\ dispatched'.type = "loadPokemonsSuccess" =>
                Collection(state') = Range(dispatched'.pokemons)
          /\ dispatched'.type = "loadPokemonByIdSuccess" =>
                LET pokemon == dispatched'.pokemon
                IN /\ pokemon.id \in DOMAIN state'.entities
                   /\ state'.entities[pokemon.id] = pokemon
                   /\ state'.selectedPokemonId = Some(pokemon.id)
          /\ dispatched'.type \in
                {"loadPokemonsFailure", "loadPokemonByIdFailure"} =>
                state'.error = Some(dispatched'.error)]_vars

\* A list request has just failed while a detail request is in flight:
\* both effects are still subscribed and no list request is left.
C15_Witness ==
    /\ dispatched.type = "loadPokemonsFailure"
    /\ truthy(state.error)
    /\ liveAll = {}
    /\ liveById # {}
    /\ ENABLED (LoadPokemons /\ liveAll' # {})

\* C17: a fetch that is pending when the view that issued it is destroyed
\* is not aborted. A step that replaces the view leaves the requests in
\* flight as they are, but for the request of the fetch that the new view
\* dispatches itself, and whichever view is shown the response of a request
\* in flight is applied when it arrives.
C17_PendingFetchSurvivesView ==
    /\ [][/\ view' # view =>
                /\ dispatched'.type # "loadPokemons" => liveAll' = liveAll
                /\ dispatched'.type # "loadPokemonById" =>
                      liveById' = liveById
          /\ dispatched'.type = "loadPokemonsSuccess" =>
                Collection(state') = Range(dispatched'.pokemons)
          /\ dispatched'.type = "loadPokemonByIdSuccess" =>
                LET pokemon == dispatched'.pokemon
                IN /\ pokemon.id \in DOMAIN state'.entities
                   /\ state'.entities[pokemon.id] = pokemon
          /\ dispatched'.type \in
                {"loadPokemonsFailure", "loadPokemonByIdFailure"} =>
                state'.error = Some(dispatched'.error)
          /\ dispatched'.type \in Settlements => ~state'.loading]_vars
    /\ [](/\ liveAll # {} =>
                ENABLED LoadPokemonsSuccess /\ ENABLED LoadPokemonsFailure
          /\ liveById # {} =>
                ENABLED LoadPokemonByIdSuccess
                   /\ ENABLED LoadPokemonByIdFailure)

\* The detail view is shown, the list view that dispatched loadPokemons is
\* gone, and the list response has just been applied.
C17_Witness ==
    /\ view = "detail"
    /\ dispatched.type = "loadPokemonsSuccess"
    /\ Len(state.ids) = MaxId

\* C19: loadPokemons is dispatched in the step that creates the list view
\* with its local store, and in no other step: no later operation of the
\* store (setSearchTerm, setViewMode, clearSearch, toggleFavorite,
\* optimisticallyUpdatePokemon) dispatches it again.
C19_LoadAllOnlyAtCreation ==
    [][dispatched'.type = "loadPokemons" <=>
          (view # "list" /\ view' = "list")]_vars

\* The list store has been searched and switched to the favorites while the
\* one request of its creation is still in flight.
C19_Witness ==
    /\ view = "list"
    /\ dispatched = NoAction
    /\ Len(searchTerm) > 0
    /\ viewMode = "favorites"
    /\ Cardinality(liveAll) = 1
    /\ state.loading

\* C20 as stated: while the list view's store exists, a step that changes
\* the global collection leaves the local entity copy equal to it.
C20_LocalCopyMirrorsCollection ==
    [][(/\ view = "list"
        /\ view' = "list"
        /\ Collection(state') # Collection(state)) =>
          Range(localEntities') = Collection(state')]_vars

\* C21 as stated: a step that leaves the detail view clears the Selection
\* Pointer.
C21_LeavingDetailClearsSelection ==
    [][(view = "detail" /\ view' # "detail") =>
          state'.selectedPokemonId = Null]_vars

\* C22: a dispatch of loadPokemons or of loadPokemonById sets loading to
\* true and error to null and leaves the collection, the favorites and the
\* Selection Pointer as they were, from every state.
C22_FetchDispatchFrame ==
    [][dispatched'.type \in FetchDispatches =>
          /\ state'.loading = TRUE
          /\ state'.error = Null
          /\ state'.entities = state.entities
          /\ state'.ids = state.ids
          /\ state'.favoriteIds = state.favoriteIds
          /\ state'.selectedPokemonId = state.selectedPokemonId]_vars

\* A list fetch has just been dispatched on a state with records, a
\* favorite and a selected id.
C22_Witness ==
    /\ dispatched.type = "loadPokemons"
    /\ state.loading
    /\ state.error = Null
    /\ Len(state.ids) = MaxId
    /\ state.favoriteIds # <<>>
    /\ state.selectedPokemonId # Null

\* C23: the list view's store never writes its local copy back. A step
\* without a dispatch leaves the global state as it is; while the list view
\* stays, the only actions dispatched besides the effects' settlements are
\* toggleFavorite, and the step that creates the view dispatches
\* loadPokemons; and a step that changes the local entity copy (the
\* synchronization, optimisticallyUpdatePokemon) leaves the collection, the
\* favorites and the projection the list view shows unchanged.
C23_LocalCopyNeverWrittenBack ==
    [][/\ dispatched' = NoAction => state' = state
       /\ (view = "list" /\ view' = "list" /\ dispatched' # NoAction) =>
             dispatched'.type \in Settlements \cup {"toggleFavorite"}
       /\ (view # "list" /\ view' = "list") =>
             dispatched'.type = "loadPokemons"
       /\ localEntities' # localEntities =>
             /\ state'.entities = state.entities
             /\ state'.ids = state.ids
             /\ state'.favoriteIds = state.favoriteIds
             /\ (view = "list" /\ view' = "list") =>
                   filteredPokemons(state', searchTerm', viewMode') =
                      filteredPokemons(state, searchTerm, viewMode)]_vars

\* An optimistic update has just renamed a record of the local copy; the
\* global collection holds the record under its old name.
C23_Witness ==
    /\ view = "list"
    /\ dispatched = NoAction
    /\ \E i \in 1..Len(localEntities) :
          /\ localEntities[i].name = <<"b">>
          /\ localEntities[i].id \in DOMAIN state.entities
          /\ state.entities[localEntities[i].id].name # <<"b">>

\* C24: with a remote source that settles every request that stays in
\* flight, a loading flag that is true becomes false at some time, and once
\* false it becomes true again only in the dispatch of a fetch.
C24_LoadingEventuallyFalse ==
    /\ state.loading ~> ~state.loading
    /\ [][(~state.loading /\ state'.loading) =>
             dispatched'.type \in FetchDispatches]_vars

\* Every request has been settled and the loading flag is false.
C24_Witness ==
    /\ dispatched.type \in Settlements
    /\ ~state.loading
    /\ liveAll = {}
    /\ liveById = {}

\* C25: in every reachable state of the global store a set error implies
\* that the loading flag is false.
C25_ErrorImpliesNotLoading ==
    state.error # Null => ~state.loading

\* A detail request has failed while the list request is still in flight:
\* the error is set and the flag is false.
C25_Witness ==
    /\ dispatched.type = "loadPokemonByIdFailure"
    /\ state.error # Null
    /\ ~state.loading
    /\ liveAll # {}

\* C26: in every reachable state, a loading flag that is true comes with a
\* request in flight.
C26_LoadingImpliesLiveRequest ==
    state.loading => (liveAll # {} \/ liveById # {})

\* The list fetch was dispatched again while its request was in flight:
\* the flag is true and the second request is the one in flight.
C26_Witness ==
    /\ dispatched.type = "loadPokemons"
    /\ state.loading
    /\ liveAll = {2}
    /\ liveById = {}

C28_SelectedRecordPresent ==
    state.selectedPokemonId # Null =>
        TheValue(state.selectedPokemonId) \in DOMAIN state.entities

\* C29 as stated: whenever the detail view displays a record (loading
\* false, no error, selected record present), the record's id is the
\* route id.
C29_DetailShowsRouteId ==
    (view = "detail" /\ infoShown(state)) =>
        Some(TheValue(selectSelectedPokemon(state)).id) = routeId

\* C30: the favorites list holds no id twice; a toggleFavorite of an id
\* changes whether that id is in the list and that of no other id, and no
\* other step changes the list, so that an id is in the list exactly when
\* it was toggled an odd number of times.
C30_FavoritesBehaveAsSet ==
    /\ [](\A i, j \in 1..Len(state.favoriteIds) :
             state.favoriteIds[i] = state.favoriteIds[j] => i = j)
    /\ [][IF dispatched'.type = "toggleFavorite"
          THEN \A id \in Ids :
                  includes(state'.favoriteIds, id) =
                     IF id = dispatched'.id
                     THEN ~includes(state.favoriteIds, id)
                     ELSE includes(state.favoriteIds, id)
          ELSE state'.favoriteIds = state.favoriteIds]_vars

\* An id has just been toggled for the second time and is out of the list
\* again, while another id, toggled once, is in it.
C30_Witness ==
    /\ dispatched.type = "toggleFavorite"
    /\ ~includes(state.favoriteIds, dispatched.id)
    /\ Len(state.favoriteIds) = 1

=============================================================================
